---- MODULE Spec2Model ----
(***************************************************************************)
(* GitHub Repository Monitor (src/github_monitor.py): the fetch, compare   *)
(* and report pipeline of GitHubMonitor.run over a sequence of runs in one *)
(* working directory.                                                      *)
(*                                                                         *)
(* Repository full names are modelled by positive integers whose numeric   *)
(* order stands for the lexicographic order of the strings; 1, 2, 3, 4     *)
(* stand for acme/a, acme/b, acme/c, acme/d.  A file is a record holding   *)
(* its lines and its modification time; the working directory is a        *)
(* function from the names of the files that exist.  A file name is        *)
(* <<prefix, day>>, e.g. <<"repo-list", 2>> for repo-list-<day 2>.         *)
(***************************************************************************)
EXTENDS Integers, Sequences, FiniteSets, TLC

VARIABLES
    organization,        \* self.organization ("" when not set)
    github_token,        \* self.github_token ("" when not set)
    day,                 \* the calendar day of the environment
    pc,                  \* position of the current process
    today,               \* self.today, fixed at construction
    files,               \* the working directory: name -> file
    backups,             \* backups_<day>/old_<name>: name -> lines
    now,                 \* the clock modification times are taken from
    page,                \* fetch_repositories: page
    attempt,             \* fetch_repositories: attempt
    repositories,        \* fetch_repositories: repositories
    response,            \* fetch_repositories: the last response
    current_repos,       \* run: current_repos
    previous_list_file,  \* run: previous_list_file (None when not found)
    previous_repos,      \* run: previous_repos
    added_repos,         \* run: added_repos
    deleted_repos,       \* run: deleted_repos
    result,              \* what run() gave: "none", "True", "False", "raised"
    validated,           \* history: this run passed both validations
    rejected,            \* history: a validation call of this run failed
    tries,               \* history of the fetch: requests made for each page
    requested,           \* history: the pages requested in this run, in order
    sizes,               \* history: size of each page body received in this run
    aborted,             \* history: some page of this run failed 3 times
    start_files,         \* history: the working directory when the run started
    start_backups,       \* history: the backups when the run started
    fetches,             \* number of runs that have reached the fetch
    consumed,            \* history: the snapshot files a diff has used as previous
    slack_webhook_url,   \* self.slack_webhook_url ("" when not set)
    enable_slack,        \* self.enable_slack
    args,                \* main: the parsed command line of this process
    path,                \* main: the branch this process took
    exit_code,           \* the exit code of the last process ("none" while one runs)
    notification,        \* send_slack_notification: "none", "sent", "failed"
    console              \* what print_table has printed in this process

vars == <<organization, github_token, day, pc, today, files, backups,
          now, page, attempt, repositories, response, current_repos,
          previous_list_file, previous_repos, added_repos, deleted_repos,
          result, validated, tries, requested, sizes, aborted, start_files,
          start_backups, consumed, fetches, rejected, slack_webhook_url,
          enable_slack, args, path, exit_code, notification, console>>

\* the stored configuration (config.ini), loaded at construction and saved
\* by update_config
config == <<organization, github_token, slack_webhook_url, enable_slack>>

\* what main and the report add to the state of a run
cli == <<args, path, exit_code, notification, console>>

(***************************************************************************)
(* Bounds of the model.                                                    *)
(***************************************************************************)
\* the runs of a sequence of runs that reach the fetch
MaxRuns == 3

\* the calendar days of a sequence of runs
MaxDay == 2

\* the pages a fetch of a sequence of runs can need
RunPages == 1

\* the pages the fetch of a first run can need
MaxPages == 3

(***************************************************************************)
(* Constants of the program.                                               *)
(***************************************************************************)
PerPage == 100

RetryBudget == 3

\* "if attempt == 2": the attempt after which a failure is raised
LastAttempt == 2

\* print_table: "len(item) > 70" and "item[:70]"
TruncateAt == 70

\* print_table: "count < 20"
TableLimit == 20

None == <<>>

NoResponse == [ok |-> FALSE, islist |-> FALSE, items |-> <<>>]

Prefixes == {"repo-list", "added-repos", "deleted-repos"}

\* self.repo_list_file, self.added_repos_file, self.deleted_repos_file
repo_list_file(d) == <<"repo-list", d>>

added_repos_file(d) == <<"added-repos", d>>

deleted_repos_file(d) == <<"deleted-repos", d>>

DayFiles(d) == {repo_list_file(d), added_repos_file(d), deleted_repos_file(d)}

(***************************************************************************)
(* Sequences.                                                              *)
(***************************************************************************)
Range(s) == {s[i] : i \in 1..Len(s)}

\* list.sort(reverse=True)
Sorted_Descending(s) == SortSeq(s, LAMBDA a, b : a > b)

\* list.sort(): ascending, duplicates kept
Sorted(s) == SortSeq(s, LAMBDA a, b : a < b)

(***************************************************************************)
(* The file system.                                                        *)
(***************************************************************************)
\* open(filename, "w") and one line per item
WriteFile(dir, name, lines, time) ==
    [f \in DOMAIN dir \cup {name} |->
        IF f = name THEN [content |-> lines, mtime |-> time]
        ELSE dir[f]]

\* _save_list_to_file: one line per item, in the order of the list
SaveListToFile(dir, items, name, time) ==
    WriteFile(dir, name, items, time)

\* run: [line.strip() for line in f if line.strip()]
LoadList(dir, name) == SelectSeq(dir[name].content, LAMBDA line : line > 0)

EmptyDir == [f \in {} |-> 0]

(***************************************************************************)
(* os.listdir("."): the names of the directory in an order the program     *)
(* does not control.  find_previous_list filters the listing and keeps the *)
(* relative order of what it keeps, so only the order of the repo-list-*   *)
(* names among themselves can matter: every such order is enumerated, the  *)
(* other names follow.                                                     *)
(***************************************************************************)
RECURSIVE Orders(_)
Orders(S) ==
    IF S = {} THEN {<<>>}
    ELSE UNION {{<<x>> \o rest : rest \in Orders(S \ {x})} : x \in S}

RECURSIVE SetToSeq(_)
SetToSeq(S) ==
    IF S = {} THEN <<>>
    ELSE LET x == CHOOSE y \in S : TRUE IN <<x>> \o SetToSeq(S \ {x})

Listings(dir) ==
    LET snaps == {f \in DOMAIN dir : f[1] = "repo-list"}
    IN  {o \o SetToSeq(DOMAIN dir \ snaps) : o \in Orders(snaps)}

(***************************************************************************)
(* find_previous_list                                                      *)
(***************************************************************************)
\* IsCandidate without "f != self.repo_list_file"
IsCandidate_TodayIncluded(f, d) == f[1] = "repo-list"

\* f.startswith("repo-list-") and f != self.repo_list_file
IsCandidate(f, d) == f[1] = "repo-list" /\ f # repo_list_file(d)

\* files.sort(key=getmtime, reverse=True): stable, newest first
RECURSIVE InsertByMtime(_, _, _)
InsertByMtime(sorted, f, dir) ==
    IF sorted = <<>> THEN <<f>>
    ELSE IF dir[Head(sorted)].mtime >= dir[f].mtime
         THEN <<Head(sorted)>> \o InsertByMtime(Tail(sorted), f, dir)
         ELSE <<f>> \o sorted

RECURSIVE SortByMtime(_, _)
SortByMtime(s, dir) ==
    IF s = <<>> THEN <<>>
    ELSE InsertByMtime(SortByMtime(SubSeq(s, 1, Len(s) - 1), dir), s[Len(s)], dir)

\* find_previous_list without "reverse=True": the oldest candidate
find_previous_list_Oldest(listing, dir, d) ==
    LET cands == SelectSeq(listing, LAMBDA f : IsCandidate(f, d))
        sorted == SortByMtime(cands, dir)
    IN  IF cands = <<>> THEN None ELSE sorted[Len(sorted)]

find_previous_list(listing, dir, d) ==
    LET cands == SelectSeq(listing, LAMBDA f : IsCandidate(f, d))
    IN  IF cands = <<>> THEN None ELSE Head(SortByMtime(cands, dir))

(***************************************************************************)
(* compare_repositories: the two lists it returns                          *)
(***************************************************************************)
\* compare_repositories that sorts the two lists it returns
compare_repositories_Resorted(current_list, previous_list) ==
    [added   |-> Sorted(SelectSeq(current_list,
                     LAMBDA repo : repo \notin Range(previous_list))),
     deleted |-> Sorted(SelectSeq(previous_list,
                     LAMBDA repo : repo \notin Range(current_list)))]

\* compare_repositories that scans set(previous_list) for the deleted ones:
\* a repeated entry is reported once
compare_repositories_DeletedOnce(current_list, previous_list) ==
    [added   |-> SelectSeq(current_list,
                     LAMBDA repo : repo \notin Range(previous_list)),
     deleted |-> SelectSeq(SetToSeq(Range(previous_list)),
                     LAMBDA repo : repo \notin Range(current_list))]

\* "repo not in previous_list" is membership in the list, whatever its order
\* and its duplicates
compare_repositories(current_list, previous_list) ==
    LET in_previous == Range(previous_list)
        in_current == Range(current_list)
    IN  [added   |-> SelectSeq(current_list, LAMBDA repo : repo \notin in_previous),
         deleted |-> SelectSeq(previous_list, LAMBDA repo : repo \notin in_current)]

(***************************************************************************)
(* backup_files: every file of the day that exists is copied to the backup *)
(* directory and removed.                                                  *)
(***************************************************************************)
\* backup_files that copies and removes the snapshot file only
backup_files_SnapshotOnly(dir, bk, d) ==
    LET olds == {repo_list_file(d)} \cap DOMAIN dir
    IN  [files   |-> [f \in DOMAIN dir \ olds |-> dir[f]],
         backups |-> [f \in DOMAIN bk \cup olds |->
                         IF f \in olds THEN dir[f].content ELSE bk[f]]]

backup_files(dir, bk, d) ==
    LET olds == DayFiles(d) \cap DOMAIN dir
    IN  [files   |-> [f \in DOMAIN dir \ olds |-> dir[f]],
         backups |-> [f \in DOMAIN bk \cup olds |->
                         IF f \in olds THEN dir[f].content ELSE bk[f]]]

(***************************************************************************)
(* print_table: the lines it prints for a list.  A text is a sequence of   *)
(* character codes; the name n of the run model prints as the text <<n>>.  *)
(***************************************************************************)
Ellipsis == <<46, 46, 46>>

\* item[:70] + "..." when len(item) > 70
display_item(item) ==
    IF Len(item) > TruncateAt THEN SubSeq(item, 1, TruncateAt) \o Ellipsis
    ELSE item

\* print_table with "count <= 20" for "count < 20"
print_table_TwentyListed(items, title) ==
    <<<<"title", title>>, <<"count", Len(items)>>>> \o
    (IF Len(items) = 0 THEN <<<<"no_entries">>>>
     ELSE IF Len(items) <= TableLimit
          THEN [i \in 1..Len(items) |-> <<"item", display_item(items[i])>>]
          ELSE <<<<"too_many", Len(items)>>, <<"saved_to_file">>>>)

print_table(items, title) ==
    <<<<"title", title>>, <<"count", Len(items)>>>> \o
    (IF Len(items) = 0 THEN <<<<"no_entries">>>>
     ELSE IF Len(items) < TableLimit
          THEN [i \in 1..Len(items) |-> <<"item", display_item(items[i])>>]
          ELSE <<<<"too_many", Len(items)>>, <<"saved_to_file">>>>)

\* the texts of a list of names of the run model
Texts(repos) == [i \in 1..Len(repos) |-> <<repos[i]>>]

(***************************************************************************)
(* The command line (parse_arguments) and update_config.  An optional      *)
(* value is None or Some(v).  A value option that is not given is None;    *)
(* the three flags are store_true options, False when not given.           *)
(***************************************************************************)
Some(v) == <<v>>

Args ==
    [organization : {None, Some("acme")}, github_token : {None, Some("token")},
     slack_webhook_url : {None, Some("hook")}, enable_slack : BOOLEAN,
     show_config : BOOLEAN, dry_run : BOOLEAN]

NoArgs ==
    [organization |-> None, github_token |-> None, slack_webhook_url |-> None,
     enable_slack |-> FALSE, show_config |-> FALSE, dry_run |-> FALSE]

\* the truth value of an optional string
Truthy(opt) == opt # None /\ opt[1] # ""

\* main: "if args.organization or args.github_token or
\* args.slack_webhook_url or args.enable_slack"
UpdatesConfig(a) ==
    \/ Truthy(a.organization)
    \/ Truthy(a.github_token)
    \/ Truthy(a.slack_webhook_url)
    \/ a.enable_slack

\* main: "args.enable_slack if args.enable_slack is not None else
\* (True if args.slack_webhook_url else None)"; args.enable_slack is a bool
EnableSlackArgument(a) ==
    IF Some(a.enable_slack) # None THEN Some(a.enable_slack)
    ELSE IF Truthy(a.slack_webhook_url) THEN Some(TRUE) ELSE None

\* update_config: an argument that is None leaves its setting alone
update_config(old, new) == IF new # None THEN new[1] ELSE old

\* main: the value main returns, from the branch taken and what run() gave
ExitCode(branch, run_result) ==
    IF branch \in {"show_config", "dry_run"} THEN 0
    ELSE IF branch = "no_organization" THEN 1
    ELSE IF run_result = "True" THEN 0 ELSE 1

(***************************************************************************)
(* What the listing endpoint can answer to the request for page p: a       *)
(* network or HTTP error, a body that is not a list, an empty list, a      *)
(* short list, or a full page of PerPage entries (offered while p is below *)
(* the bound on the pages of a fetch).  The bodies are in the order of the *)
(* API, which is not sorted.                                               *)
(***************************************************************************)
ShortBodies == {<<1, 2, 3>>, <<1, 3, 4>>}

FirstRunBodies == {<<2, 1>>, <<3, 1, 3>>, [i \in 1..37 |-> 38 - i]}

FullBody(p) == [i \in 1..PerPage |-> p * PerPage + (PerPage + 1 - i)]

Failure == [ok |-> FALSE, islist |-> FALSE, items |-> <<>>]

NotAList == [ok |-> TRUE, islist |-> FALSE, items |-> <<>>]

ListBody(items) == [ok |-> TRUE, islist |-> TRUE, items |-> items]

Responses(p, pages, shorts) ==
    {Failure, NotAList, ListBody(<<>>)}
    \cup {ListBody(b) : b \in shorts}
    \cup (IF p < pages THEN {ListBody(FullBody(p))} ELSE {})

ValidationOutcomes == {"200", "rejected", "network_error", "unreadable"}

(***************************************************************************)
(* The state after construction: nothing in the working directory, a       *)
(* stored configuration with or without organization and token, and no     *)
(* webhook.                                                                *)
(***************************************************************************)
Init ==
    /\ organization \in {"", "acme"}
    /\ github_token \in {"", "token"}
    /\ day = 1
    /\ pc = "idle"
    /\ today = 1
    /\ files = EmptyDir
    /\ backups = EmptyDir
    /\ now = 0
    /\ page = 0
    /\ attempt = 0
    /\ repositories = <<>>
    /\ response = NoResponse
    /\ current_repos = <<>>
    /\ previous_list_file = None
    /\ previous_repos = <<>>
    /\ added_repos = <<>>
    /\ deleted_repos = <<>>
    /\ result = "none"
    /\ validated = FALSE
    /\ rejected = FALSE
    /\ tries = <<>>
    /\ requested = <<>>
    /\ sizes = <<>>
    /\ aborted = FALSE
    /\ start_files = EmptyDir
    /\ start_backups = EmptyDir
    /\ consumed = {}
    /\ fetches = 0
    /\ slack_webhook_url = ""
    /\ enable_slack = FALSE
    /\ args = NoArgs
    /\ path = "none"
    /\ exit_code = "none"
    /\ notification = "none"
    /\ console = <<>>

Idle == pc = "idle"

\* The calendar day changes between two runs.
NewDay ==
    /\ Idle
    /\ day < MaxDay
    /\ day' = day + 1
    /\ UNCHANGED <<organization, github_token, pc, today, files, backups, now,
                   page, attempt, repositories, response, current_repos,
                   previous_list_file, previous_repos, added_repos,
                   deleted_repos, result, validated, tries, requested, sizes,
                   aborted, start_files, start_backups, consumed, fetches,
                   rejected, slack_webhook_url, enable_slack>>
    /\ UNCHANGED cli

\* GitHubMonitor(), main and run() up to its first request, for the command
\* line a.  No run starts once `limit` runs have reached the fetch.
Main(a, limit) ==
    LET updates == UpdatesConfig(a)
        org == IF updates THEN update_config(organization, a.organization)
               ELSE organization
        token == IF updates THEN update_config(github_token, a.github_token)
                 ELSE github_token
        branch == IF a.show_config THEN "show_config"
                  ELSE IF org = "" THEN "no_organization"
                  ELSE IF a.dry_run THEN "dry_run"
                  ELSE "run"
    IN  /\ Idle
        /\ branch = "run" => fetches < limit
        /\ organization' = org
        /\ github_token' = token
        /\ slack_webhook_url' =
               IF updates
               THEN update_config(slack_webhook_url, a.slack_webhook_url)
               ELSE slack_webhook_url
        /\ enable_slack' =
               IF updates
               THEN update_config(enable_slack, EnableSlackArgument(a))
               ELSE enable_slack
        /\ args' = a
        /\ path' = branch
        /\ exit_code' = "none"
        /\ result' = "none"
        /\ today' = day
        /\ start_files' = files
        /\ start_backups' = backups
        /\ pc' = IF branch # "run" THEN "done"
                 ELSE IF token # "" THEN "validate_token"
                 ELSE "validate_organization"
        /\ UNCHANGED <<day, files, backups, now, page, attempt, repositories,
                       response, current_repos, previous_list_file,
                       previous_repos, added_repos, deleted_repos, validated,
                       tries, requested, sizes, aborted, consumed, fetches,
                       rejected, notification, console>>

\* an invocation with no option
RunStart(limit) == Main(NoArgs, limit)

\* run that goes on when validate_token returns False
ValidateToken_Ignored(outcome) ==
    /\ pc = "validate_token"
    /\ pc' = "validate_organization"
    /\ rejected' = (outcome # "200")
    /\ UNCHANGED <<organization, github_token, day, today, files, backups,
                   now, page, attempt, repositories, response, current_repos,
                   previous_list_file, previous_repos, added_repos,
                   deleted_repos, result, validated, tries, requested, sizes,
                   aborted, start_files, start_backups, consumed, fetches,
                   slack_webhook_url, enable_slack>>
    /\ UNCHANGED cli

\* validate_token and run's use of what it returns.
ValidateToken(outcome) ==
    /\ pc = "validate_token"
    /\ IF outcome = "200"
       THEN pc' = "validate_organization" /\ result' = result
       ELSE /\ pc' = "done"
            /\ result' = IF outcome = "unreadable" THEN "raised" ELSE "False"
    /\ UNCHANGED <<organization, github_token, day, today, files, backups,
                   now, page, attempt, repositories, response, current_repos,
                   previous_list_file, previous_repos, added_repos,
                   deleted_repos, validated, tries, requested, sizes, aborted,
                   start_files, start_backups, consumed>>
    /\ rejected' = (outcome # "200")
    /\ UNCHANGED <<fetches, slack_webhook_url, enable_slack>>
    /\ UNCHANGED cli

\* validate_organization, run's use of what it returns, and backup_files.
ValidateOrganization(outcome) ==
    /\ pc = "validate_organization"
    /\ IF outcome = "200"
       THEN /\ pc' = "fetch"
            /\ result' = result
            /\ validated' = TRUE
            /\ files' = backup_files(files, backups, today).files
            /\ backups' = backup_files(files, backups, today).backups
            /\ page' = 1
       ELSE /\ pc' = "done"
            /\ result' = IF outcome = "unreadable" THEN "raised" ELSE "False"
            /\ UNCHANGED <<validated, files, backups, page>>
    /\ UNCHANGED <<organization, github_token, day, today, now, attempt,
                   repositories, response, current_repos, previous_list_file,
                   previous_repos, added_repos, deleted_repos, tries,
                   requested, sizes, aborted, start_files, start_backups,
                   consumed>>
    /\ rejected' = (outcome # "200")
    /\ fetches' = IF outcome = "200" THEN fetches + 1 ELSE fetches
    /\ UNCHANGED <<slack_webhook_url, enable_slack>>
    /\ UNCHANGED cli

(***************************************************************************)
(* fetch_repositories: one request of the retry loop, with what the loop   *)
(* does with its outcome.  When the outcome ends the loop ("break", also   *)
(* the one in "except Exception"), the rest of fetch_repositories runs:    *)
(* the list is sorted, saved as the snapshot of the day and returned.      *)
(***************************************************************************)
Requested(log, p) ==
    IF Len(log) < p THEN Append(log, 1) ELSE [log EXCEPT ![p] = @ + 1]

\* LoopEnd with "count <= 100" for "count < 100": a full page ends the fetch
LoopEnd_FullPageEnds(resp, att, repos) ==
    IF ~resp.ok
    THEN IF att = LastAttempt THEN <<repos>> ELSE None
    ELSE IF ~resp.islist \/ resp.items = <<>> THEN <<repos>>
    ELSE IF Len(resp.items) <= PerPage THEN <<repos \o resp.items>>
    ELSE None

\* LoopEnd with "attempt == 1" for "attempt == 2": two attempts for a page
LoopEnd_TwoAttempts(resp, att, repos) ==
    IF ~resp.ok
    THEN IF att = 1 THEN <<repos>> ELSE None
    ELSE IF ~resp.islist \/ resp.items = <<>> THEN <<repos>>
    ELSE IF Len(resp.items) < PerPage THEN <<repos \o resp.items>>
    ELSE None

\* the list the loop leaves when it ends on this outcome, or None to go on
LoopEnd(resp, att, repos) ==
    IF ~resp.ok
    THEN IF att = LastAttempt THEN <<repos>> ELSE None
    ELSE IF ~resp.islist \/ resp.items = <<>> THEN <<repos>>
    ELSE IF Len(resp.items) < PerPage THEN <<repos \o resp.items>>
    ELSE None

FetchRequest(resp) ==
    /\ pc = "fetch"
    /\ attempt < RetryBudget
    /\ response' = resp
    /\ requested' = IF attempt = 0 THEN Append(requested, page) ELSE requested
    /\ sizes' = IF ~resp.ok THEN sizes
                ELSE Append(sizes, IF resp.islist THEN Len(resp.items) ELSE -1)
    /\ aborted' = (aborted \/ (~resp.ok /\ attempt = LastAttempt))
    /\ IF LoopEnd(resp, attempt, repositories) # None
       THEN /\ current_repos' = Sorted(LoopEnd(resp, attempt, repositories)[1])
            /\ files' = SaveListToFile(files, current_repos',
                                       repo_list_file(today), now + 1)
            /\ now' = now + 1
            /\ pc' = "fetched"
            /\ page' = 0
            /\ attempt' = 0
            /\ repositories' = <<>>
            /\ tries' = <<>>
       ELSE /\ IF resp.ok
               THEN /\ repositories' = repositories \o resp.items
                    /\ page' = page + 1
                    /\ attempt' = 0
               ELSE /\ repositories' = repositories
                    /\ page' = page
                    /\ attempt' = attempt + 1
            /\ tries' = Requested(tries, page)
            /\ UNCHANGED <<current_repos, files, now, pc>>
    /\ UNCHANGED <<organization, github_token, day, today, backups,
                   previous_list_file, previous_repos, added_repos,
                   deleted_repos, result, validated, start_files,
                   start_backups, consumed, fetches, rejected,
                   slack_webhook_url, enable_slack>>
    /\ UNCHANGED cli

(***************************************************************************)
(* run, from the return of fetch_repositories to its own return: the       *)
(* check of the fetched list, find_previous_list, the load of the previous *)
(* snapshot, compare_repositories with its two files, and the report.      *)
(***************************************************************************)
\* compare_repositories: the two lists, each saved to its file of the day
CompareAndSave(current_list, previous_list) ==
    /\ added_repos' = compare_repositories(current_list, previous_list).added
    /\ deleted_repos' = compare_repositories(current_list, previous_list).deleted
    /\ files' = SaveListToFile(
                  SaveListToFile(files, added_repos', added_repos_file(today),
                                 now + 1),
                  deleted_repos', deleted_repos_file(today), now + 2)
    /\ now' = now + 2

\* run: "if not current_repos" taken for no list at all
FetchFailed_Never(current) == FALSE

\* run: "if not current_repos"
FetchFailed(current) == current = <<>>

\* run: the two tables of the "Repository Changes Report"
ChangesReport(added, deleted) ==
    print_table(Texts(added), "Added Repositories")
    \o print_table(Texts(deleted), "Deleted Repositories")

\* run: the table of the "Initial Repository Report"
InitialReport(current) == print_table(Texts(current), "Current Repositories")

\* run: the tables of the "Summary"
Summary(previous_file, previous, current) ==
    (IF previous_file # None
     THEN print_table(Texts(previous), "Previous Repository List")
     ELSE <<>>)
    \o print_table(Texts(current), "Current Repository List")

\* send_slack_notification goes as far as the POST
Posts == enable_slack /\ slack_webhook_url # ""

RunAfterFetch ==
    /\ pc = "fetched"
    /\ IF FetchFailed(current_repos)
       THEN /\ pc' = "done"
            /\ result' = "False"
            /\ UNCHANGED <<previous_list_file, previous_repos, added_repos,
                           deleted_repos, files, now, consumed, console>>
       ELSE /\ \E listing \in Listings(files) :
                 previous_list_file' = find_previous_list(listing, files, today)
            /\ IF previous_list_file' # None
               THEN /\ previous_repos' = LoadList(files, previous_list_file')
                    /\ CompareAndSave(current_repos, previous_repos')
                    /\ consumed' = consumed \cup {previous_list_file'}
                    /\ IF Posts
                       THEN /\ pc' = "notify"
                            /\ result' = result
                            /\ console' = ChangesReport(added_repos', deleted_repos')
                       ELSE /\ pc' = "done"
                            /\ result' = "True"
                            /\ console' =
                                 ChangesReport(added_repos', deleted_repos')
                                 \o Summary(previous_list_file', previous_repos',
                                            current_repos)
               ELSE /\ pc' = "done"
                    /\ result' = "True"
                    /\ console' = InitialReport(current_repos)
                                  \o Summary(None, <<>>, current_repos)
                    /\ UNCHANGED <<previous_repos, added_repos, deleted_repos,
                                   files, now, consumed>>
    /\ UNCHANGED <<organization, github_token, day, today, backups, page,
                   attempt, repositories, response, current_repos, validated,
                   tries, requested, sizes, aborted, start_files,
                   start_backups, fetches, rejected, slack_webhook_url,
                   enable_slack, args, path, exit_code, notification>>

SlackOutcomes == {"2xx", "non_2xx", "network_error"}

\* send_slack_notification whose failure makes run() return False at once
SendSlackNotification_Fatal(outcome) ==
    /\ pc = "notify"
    /\ pc' = "done"
    /\ notification' = IF outcome = "2xx" THEN "sent" ELSE "failed"
    /\ result' = IF outcome = "2xx" THEN "True" ELSE "False"
    /\ console' = IF outcome = "2xx"
                  THEN console \o Summary(previous_list_file, previous_repos,
                                          current_repos)
                  ELSE console
    /\ UNCHANGED <<organization, github_token, day, today, files, backups,
                   now, page, attempt, repositories, response, current_repos,
                   previous_list_file, previous_repos, added_repos,
                   deleted_repos, validated, tries, requested, sizes, aborted,
                   start_files, start_backups, consumed, fetches, rejected,
                   slack_webhook_url, enable_slack, args, path, exit_code>>

\* send_slack_notification from its POST on, and the rest of run: the
\* outcome is logged, what the call returns is not used, the summary is
\* printed and run() returns True.
SendSlackNotification(outcome) ==
    /\ pc = "notify"
    /\ pc' = "done"
    /\ notification' = IF outcome = "2xx" THEN "sent" ELSE "failed"
    /\ result' = "True"
    /\ console' = console \o Summary(previous_list_file, previous_repos,
                                     current_repos)
    /\ UNCHANGED <<organization, github_token, day, today, files, backups,
                   now, page, attempt, repositories, response, current_repos,
                   previous_list_file, previous_repos, added_repos,
                   deleted_repos, validated, tries, requested, sizes, aborted,
                   start_files, start_backups, consumed, fetches, rejected,
                   slack_webhook_url, enable_slack, args, path, exit_code>>

\* KeyboardInterrupt while the process waits for an answer
Interrupt ==
    /\ pc \in {"validate_token", "validate_organization", "fetch", "notify"}
    /\ pc' = "done"
    /\ result' = "interrupted"
    /\ UNCHANGED <<organization, github_token, day, today, files, backups,
                   now, page, attempt, repositories, response, current_repos,
                   previous_list_file, previous_repos, added_repos,
                   deleted_repos, validated, tries, requested, sizes, aborted,
                   start_files, start_backups, consumed, fetches, rejected,
                   slack_webhook_url, enable_slack, args, path, exit_code,
                   notification, console>>

\* sys.exit(main()): the process ends with its exit code, and nothing of it
\* remains but the files and the stored configuration.
Exit ==
    /\ pc = "done"
    /\ pc' = "idle"
    /\ exit_code' = ExitCode(path, result)
    /\ page' = 0
    /\ attempt' = 0
    /\ repositories' = <<>>
    /\ response' = NoResponse
    /\ current_repos' = <<>>
    /\ previous_list_file' = None
    /\ previous_repos' = <<>>
    /\ added_repos' = <<>>
    /\ deleted_repos' = <<>>
    /\ result' = "none"
    /\ validated' = FALSE
    /\ rejected' = FALSE
    /\ tries' = <<>>
    /\ requested' = <<>>
    /\ sizes' = <<>>
    /\ aborted' = FALSE
    /\ start_files' = EmptyDir
    /\ start_backups' = EmptyDir
    /\ args' = NoArgs
    /\ path' = "none"
    /\ notification' = "none"
    /\ console' = <<>>
    /\ UNCHANGED <<organization, github_token, day, today, files, backups,
                   now, consumed, fetches, slack_webhook_url, enable_slack>>

(***************************************************************************)
(* Spec: a sequence of runs over several days in one working directory.    *)
(***************************************************************************)
Next ==
    \/ NewDay
    \/ RunStart(MaxRuns)
    \/ \E outcome \in ValidationOutcomes : ValidateToken(outcome)
    \/ \E outcome \in ValidationOutcomes : ValidateOrganization(outcome)
    \/ \E resp \in Responses(page, RunPages, ShortBodies) : FetchRequest(resp)
    \/ RunAfterFetch
    \/ Exit

Spec == Init /\ [][Next]_vars

(***************************************************************************)
(* SpecFetch: the first run in an empty working directory, with a fetch of *)
(* up to MaxPages pages.                                                   *)
(***************************************************************************)
NextFetch ==
    \/ RunStart(1)
    \/ \E outcome \in ValidationOutcomes : ValidateToken(outcome)
    \/ \E outcome \in ValidationOutcomes : ValidateOrganization(outcome)
    \/ \E resp \in Responses(page, MaxPages, FirstRunBodies) : FetchRequest(resp)
    \/ RunAfterFetch
    \/ Exit

SpecFetch == Init /\ [][NextFetch]_vars

(***************************************************************************)
(* SpecCompare: compare_repositories on every pair of lists of at most     *)
(* MaxLen names, duplicates and any order included.                        *)
(***************************************************************************)
MaxLen == 3

Names == 1..4

Lists == UNION {[1..n -> Names] : n \in 0..MaxLen}

\* the variables a specification of one function does not use
Unused(used) ==
    /\ "config" \in used \/ (organization = "acme" /\ github_token = "")
    /\ "config" \in used \/ (slack_webhook_url = "" /\ enable_slack = FALSE)
    /\ day = 1
    /\ "pc" \in used \/ pc = "idle"
    /\ "today" \in used \/ today = 1
    /\ "files" \in used \/ files = EmptyDir
    /\ backups = EmptyDir
    /\ now = 0
    /\ page = 0
    /\ attempt = 0
    /\ repositories = <<>>
    /\ response = NoResponse
    /\ "lists" \in used \/ (current_repos = <<>> /\ previous_repos = <<>>)
    /\ previous_list_file = None
    /\ added_repos = <<>>
    /\ deleted_repos = <<>>
    /\ result = "none"
    /\ validated = FALSE
    /\ rejected = FALSE
    /\ tries = <<>>
    /\ requested = <<>>
    /\ sizes = <<>>
    /\ aborted = FALSE
    /\ start_files = EmptyDir
    /\ start_backups = EmptyDir
    /\ consumed = {}
    /\ fetches = 0
    /\ args = NoArgs
    /\ path = "none"
    /\ exit_code = "none"
    /\ notification = "none"
    /\ "console" \in used \/ console = <<>>

InitCompare ==
    /\ pc = "compare"
    /\ current_repos \in Lists
    /\ previous_repos \in Lists
    /\ Unused({"pc", "lists"})

Compare ==
    /\ pc = "compare"
    /\ pc' = "compared"
    /\ CompareAndSave(current_repos, previous_repos)
    /\ UNCHANGED <<organization, github_token, day, today, backups, page,
                   attempt, repositories, response, current_repos,
                   previous_list_file, previous_repos, result, validated,
                   tries, requested, sizes, aborted, start_files,
                   start_backups, consumed, fetches, rejected,
                   slack_webhook_url, enable_slack>>
    /\ UNCHANGED cli

SpecCompare == InitCompare /\ [][Compare]_vars

(***************************************************************************)
(* SpecFind: find_previous_list on every working directory that holds any  *)
(* of the snapshot files of FindDays days, with modification times up to   *)
(* MaxMtime (equal times included), and any of the added-list and          *)
(* deleted-list files of those days, which are newer than every snapshot;  *)
(* the directory is listed in every order.                                 *)
(***************************************************************************)
FindDays == 3

MaxMtime == 2

SnapshotNames == {"repo-list"} \X (1..FindDays)

OtherNames == (Prefixes \ {"repo-list"}) \X (1..FindDays)

SnapshotDirs ==
    UNION {[S -> [content : {<<>>}, mtime : 1..MaxMtime]] :
               S \in SUBSET SnapshotNames}

Directories ==
    {[f \in DOMAIN snaps \cup T |->
         IF f \in T THEN [content |-> <<>>, mtime |-> MaxMtime + 1]
         ELSE snaps[f]] : snaps \in SnapshotDirs, T \in SUBSET OtherNames}

InitFind ==
    /\ pc = "find"
    /\ today \in 1..FindDays
    /\ files \in Directories
    /\ Unused({"pc", "today", "files"})

Find ==
    /\ pc = "find"
    /\ pc' = "found"
    /\ \E listing \in Listings(files) :
         previous_list_file' = find_previous_list(listing, files, today)
    /\ UNCHANGED <<organization, github_token, day, today, files, backups,
                   now, page, attempt, repositories, response, current_repos,
                   previous_repos, added_repos, deleted_repos, result,
                   validated, tries, requested, sizes, aborted, start_files,
                   start_backups, consumed, fetches, rejected,
                   slack_webhook_url, enable_slack>>
    /\ UNCHANGED cli

SpecFind == InitFind /\ [][Find]_vars

(***************************************************************************)
(* SpecFile: _save_list_to_file and the load of run, character by          *)
(* character, on every list of at most MaxItems texts of at most MaxText   *)
(* characters out of a letter, a space and a line feed.  Here the content  *)
(* of a file is its text.                                                  *)
(***************************************************************************)
MaxItems == 2

MaxText == 2

Newline == <<10>>

\* the characters str.strip() removes, among those of the texts drawn
Whitespace == {9, 10, 13, 32}

Characters == {97, 32, 10}

ItemTexts == UNION {[1..n -> Characters] : n \in 0..MaxText}

\* _save_list_to_file: f.write(f"{item}\n") for each item
RECURSIVE file_text(_)
file_text(items) ==
    IF items = <<>> THEN <<>>
    ELSE Head(items) \o Newline \o file_text(Tail(items))

\* "for line in f": the text cut after each line feed
RECURSIVE read_lines(_, _)
read_lines(text, line) ==
    IF text = <<>> THEN (IF line = <<>> THEN <<>> ELSE <<line>>)
    ELSE IF <<Head(text)>> = Newline
         THEN <<Append(line, Head(text))>> \o read_lines(Tail(text), <<>>)
         ELSE read_lines(Tail(text), Append(line, Head(text)))

\* line.strip()
RECURSIVE strip(_)
strip(line) ==
    IF line = <<>> THEN <<>>
    ELSE IF Head(line) \in Whitespace THEN strip(Tail(line))
    ELSE IF line[Len(line)] \in Whitespace
         THEN strip(SubSeq(line, 1, Len(line) - 1))
         ELSE line

\* run's load that keeps the lines that are empty once stripped
load_list_KeepBlank(text) ==
    LET lines == read_lines(text, <<>>)
    IN  [i \in 1..Len(lines) |-> strip(lines[i])]

\* run: [line.strip() for line in f if line.strip()]
load_list(text) ==
    LET lines == read_lines(text, <<>>)
        stripped == [i \in 1..Len(lines) |-> strip(lines[i])]
    IN  SelectSeq(stripped, LAMBDA line : line # <<>>)

InitFile ==
    /\ pc = "save"
    /\ current_repos \in UNION {[1..n -> ItemTexts] : n \in 0..MaxItems}
    /\ Unused({"pc", "lists", "files"})
    /\ previous_repos = <<>>
    /\ files = EmptyDir

Save ==
    /\ pc = "save"
    /\ pc' = "saved"
    /\ files' = WriteFile(files, repo_list_file(today),
                          file_text(current_repos), now + 1)
    /\ now' = now + 1
    /\ UNCHANGED <<organization, github_token, day, today, backups, page,
                   attempt, repositories, response, current_repos,
                   previous_list_file, previous_repos, added_repos,
                   deleted_repos, result, validated, tries, requested, sizes,
                   aborted, start_files, start_backups, consumed, fetches,
                   rejected, slack_webhook_url, enable_slack>>
    /\ UNCHANGED cli

Load ==
    /\ pc = "saved"
    /\ pc' = "loaded"
    /\ previous_repos' = load_list(files[repo_list_file(today)].content)
    /\ UNCHANGED <<organization, github_token, day, today, files, backups,
                   now, page, attempt, repositories, response, current_repos,
                   previous_list_file, added_repos, deleted_repos, result,
                   validated, tries, requested, sizes, aborted, start_files,
                   start_backups, consumed, fetches, rejected,
                   slack_webhook_url, enable_slack>>
    /\ UNCHANGED cli

SpecFile == InitFile /\ [][Save \/ Load]_vars

(***************************************************************************)
(* SpecTable: print_table on lists of up to MaxCount entries, one of which *)
(* (at any place, or none) is a text of up to MaxWidth characters, the     *)
(* others short.                                                           *)
(***************************************************************************)
MaxCount == 21

MaxWidth == 72

\* a text of w characters, no two neighbours alike
Wide(w) == [i \in 1..w |-> 97 + (i % 26)]

TableInputs ==
    {[i \in 1..n |-> IF i = k THEN Wide(w) ELSE Wide(1 + (i % 3))] :
        n \in 0..MaxCount, k \in 0..MaxCount, w \in 1..MaxWidth}

InitTable ==
    /\ pc = "print"
    /\ current_repos \in TableInputs
    /\ previous_repos = <<>>
    /\ Unused({"pc", "lists"})

PrintTable ==
    /\ pc = "print"
    /\ pc' = "printed"
    /\ console' = print_table(current_repos, "Current Repositories")
    /\ UNCHANGED <<organization, github_token, day, today, files, backups,
                   now, page, attempt, repositories, response, current_repos,
                   previous_list_file, previous_repos, added_repos,
                   deleted_repos, result, validated, tries, requested, sizes,
                   aborted, start_files, start_backups, consumed, fetches,
                   rejected, slack_webhook_url, enable_slack, args, path,
                   exit_code, notification>>

SpecTable == InitTable /\ [][PrintTable]_vars

(***************************************************************************)
(* SpecMain: invocations with every command line on one day, from the      *)
(* configuration a first construction stores; one of them reaches the      *)
(* fetch, with a fetch of up to MaxPages pages.  The working directory has *)
(* no snapshot of an earlier day, so no run posts a notification.          *)
(***************************************************************************)
InitMain ==
    /\ organization = ""
    /\ github_token = ""
    /\ slack_webhook_url = ""
    /\ enable_slack = FALSE
    /\ Unused({"config"})

NextMain ==
    \/ \E a \in Args : Main(a, 1)
    \/ \E outcome \in ValidationOutcomes : ValidateToken(outcome)
    \/ \E outcome \in ValidationOutcomes : ValidateOrganization(outcome)
    \/ \E resp \in Responses(page, MaxPages, ShortBodies) : FetchRequest(resp)
    \/ RunAfterFetch
    \/ Interrupt
    \/ Exit

SpecMain == InitMain /\ [][NextMain]_vars

(***************************************************************************)
(* SpecNotify: a sequence of runs over several days with notifications     *)
(* enabled, with and without a stored webhook.                             *)
(***************************************************************************)
InitNotify ==
    /\ organization = "acme"
    /\ github_token = "token"
    /\ slack_webhook_url \in {"", "hook"}
    /\ enable_slack = TRUE
    /\ Unused({"config"})

NextNotify ==
    \/ Next
    \/ \E outcome \in SlackOutcomes : SendSlackNotification(outcome)

SpecNotify == InitNotify /\ [][NextNotify]_vars

(***************************************************************************)
(* Claims about the fetch (checked under SpecFetch).                       *)
(***************************************************************************)

\* C1: when some page request has failed on 3 consecutive attempts, no
\* snapshot file of the day is written, neither partial nor empty.
C1_NoSnapshotAfterExhaustion ==
    aborted => repo_list_file(today) \notin DOMAIN files

\* C2: when page N has failed on its 3rd attempt, the entries of the pages
\* before it are discarded: fetch_repositories gives the caller no
\* repositories, and run() makes no report and gives failure.
C2_AllOrNothing ==
    (aborted /\ pc \in {"fetched", "done"}) =>
        /\ current_repos = <<>>
        /\ (pc = "done" => result = "False")

\* C3: the pages are requested in the order 1, 2, 3, ...; page N+1 is
\* requested if and only if page N returned exactly 100 entries, and the
\* fetch stops after the first page that is shorter, empty or not a list;
\* so page sizes 100, 100, 37 give 3 page requests and 237 entries, and
\* 100, 0 give 2 page requests and 100 entries.
C3_Pagination ==
    /\ \A i \in 1..Len(requested) : requested[i] = i
    /\ Len(sizes) <= Len(requested)
    /\ \A i \in 1..Len(sizes) :
         /\ (i < Len(requested) => sizes[i] = 100)
         /\ (sizes[i] = 100 /\ i = Len(requested) => pc = "fetch" /\ page = i + 1)
         /\ (sizes[i] # 100 => i = Len(requested) /\ pc # "fetch")
    /\ (sizes = <<100, 100, 37>> =>
            Len(requested) = 3 /\ pc # "fetch" /\ Len(current_repos) = 237)
    /\ (sizes = <<100, 0>> =>
            Len(requested) = 2 /\ pc # "fetch" /\ Len(current_repos) = 100)

\* C3 witness: a fetch that received pages of 100, 100 and 37 entries.
C3_Witness == pc = "done" /\ sizes = <<100, 100, 37>>

\* C4: each page is requested at least once and at most 3 times; a further
\* attempt for a page is made only after the preceding attempt for that
\* page failed; the first success ends the attempts for the page; every new
\* page starts with the full budget of 3 again.
C4_RetryBudget ==
    /\ [](pc = "fetch" =>
            /\ Len(tries) \in {page - 1, page}
            /\ \A p \in 1..Len(tries) : tries[p] \in 1..3
            /\ attempt = (IF Len(tries) = page THEN tries[page] ELSE 0)
            /\ attempt <= 2)
    /\ [][pc = "fetch" =>
            /\ (pc' = "fetch" /\ page' = page =>
                    ~response'.ok /\ attempt' = attempt + 1)
            /\ (response'.ok =>
                    pc' = "fetched" \/ (page' = page + 1 /\ attempt' = 0))
            /\ (~response'.ok /\ pc' = "fetched" => attempt = 2)]_vars

\* C4 witness: page 1 needed all three attempts and page 2 is at its third.
C4_Witness == pc = "fetch" /\ page = 2 /\ tries = <<3, 2>>

\* the number of times x occurs in s
Count(s, x) == Cardinality({i \in 1..Len(s) : s[i] = x})

SameBag(s, t) ==
    /\ Len(s) = Len(t)
    /\ \A x \in Range(s) \cup Range(t) : Count(s, x) = Count(t, x)

Ascending(s) == \A i \in 1..(Len(s) - 1) : s[i] <= s[i + 1]

\* the entries of the answer the fetch has just received
Received(resp) == IF resp.ok /\ resp.islist THEN resp.items ELSE <<>>

\* C12: the list fetch_repositories returns and the content of the snapshot
\* file of today are in ascending order, whatever the order of the entries
\* within and across the pages, and hold exactly the entries received, each
\* as many times as it was received: every page that does not end the fetch
\* is appended whole, and the returned list is a sorted rearrangement of
\* what was accumulated and the last page.
C12_SortedMultiset ==
    /\ [](pc = "fetched" =>
            /\ Ascending(current_repos)
            /\ files[repo_list_file(today)].content = current_repos)
    /\ [](pc = "fetch" /\ page = 1 => repositories = <<>>)
    /\ [][pc = "fetch" =>
            IF pc' = "fetched"
            THEN /\ SameBag(current_repos', repositories \o Received(response'))
                 /\ Ascending(current_repos')
                 /\ files'[repo_list_file(today)].content = current_repos'
            ELSE repositories' = repositories \o Received(response')]_vars

\* C12 witness: a full page in descending order followed by a page with a
\* repeated entry, returned sorted with the repetition kept.
C12_Witness ==
    /\ pc = "fetched"
    /\ sizes = <<100, 3>>
    /\ SubSeq(current_repos, 1, 4) = <<1, 3, 3, 101>>
    /\ Len(current_repos) = 103

(***************************************************************************)
(* Claims about compare_repositories (checked under SpecCompare).          *)
(***************************************************************************)
RECURSIVE Without(_, _)
Without(s, t) ==
    IF s = <<>> THEN <<>>
    ELSE IF \E j \in 1..Len(t) : t[j] = Head(s) THEN Without(Tail(s), t)
    ELSE <<Head(s)>> \o Without(Tail(s), t)

\* C5: added is exactly the elements of current that are not in previous, in
\* the order of current, and deleted exactly the elements of previous that
\* are not in current, in the order of previous, neither sorted again;
\* previous = a, b, c and current = a, c, d give added = d and deleted = b.
C5_CompareInOrder ==
    pc = "compared" =>
        /\ added_repos = Without(current_repos, previous_repos)
        /\ deleted_repos = Without(previous_repos, current_repos)
        /\ (current_repos = <<1, 3, 4>> /\ previous_repos = <<1, 2, 3>> =>
                added_repos = <<4>> /\ deleted_repos = <<2>>)

\* C5 witness: the diff of a list in descending order against another.
C5_Witness ==
    /\ pc = "compared"
    /\ current_repos = <<4, 3, 1>>
    /\ previous_repos = <<3, 2>>
    /\ added_repos = <<4, 1>>

\* C6: added and deleted are disjoint, their union is the symmetric
\* difference of the two snapshots, and the added list is the deleted list
\* of the diff with the arguments swapped.
C6_SymmetricDifference ==
    pc = "compared" =>
        LET A == Range(current_repos)
            B == Range(previous_repos)
        IN  /\ Range(added_repos) \cap Range(deleted_repos) = {}
            /\ Range(added_repos) \cup Range(deleted_repos) = (A \ B) \cup (B \ A)
            /\ added_repos = compare_repositories(previous_repos, current_repos).deleted
            /\ deleted_repos = compare_repositories(previous_repos, current_repos).added

\* C6 witness: a diff with entries on both sides, one of them repeated.
C6_Witness ==
    /\ pc = "compared"
    /\ current_repos = <<1, 4, 4>>
    /\ previous_repos = <<2, 1, 2>>
    /\ added_repos = <<4, 4>>
    /\ deleted_repos = <<2, 2>>

(***************************************************************************)
(* Claims about find_previous_list (checked under SpecFind).               *)
(***************************************************************************)
Candidates(dir, d) ==
    {f \in DOMAIN dir : f[1] = "repo-list" /\ f # <<"repo-list", d>>}

\* C8: find_previous_list considers exactly the repo-list-* files other than
\* the one of today; it returns None when there is none, and otherwise a
\* candidate whose modification time is greatest among the candidates; it
\* never returns the file of today.
C8_FindPrevious ==
    pc = "found" =>
        /\ (Candidates(files, today) = {} => previous_list_file = None)
        /\ (Candidates(files, today) # {} =>
                /\ previous_list_file \in Candidates(files, today)
                /\ \A c \in Candidates(files, today) :
                     files[c].mtime <= files[previous_list_file].mtime)
        /\ previous_list_file # <<"repo-list", today>>

\* C8 witness: two older snapshots of different age, a newer snapshot of
\* today and newer added-list files; the newer of the two is returned.
C8_Witness ==
    /\ pc = "found"
    /\ today = 2
    /\ {<<"repo-list", 1>>, <<"repo-list", 2>>, <<"repo-list", 3>>,
        <<"added-repos", 1>>} \subseteq DOMAIN files
    /\ files[<<"repo-list", 1>>].mtime = 2
    /\ files[<<"repo-list", 2>>].mtime = 2
    /\ files[<<"repo-list", 3>>].mtime = 1
    /\ previous_list_file = <<"repo-list", 1>>

(***************************************************************************)
(* Claims about a sequence of runs (checked under Spec).                   *)
(***************************************************************************)
Snapshots(dir) == {f \in DOMAIN dir : f[1] = "repo-list"}

Newest(dir) ==
    CHOOSE f \in Snapshots(dir) :
        \A g \in Snapshots(dir) : dir[g].mtime <= dir[f].mtime

EarlierDays(dir, d) == {e \in 1..(d - 1) : repo_list_file(e) \in DOMAIN dir}

LastDay(days) == CHOOSE e \in days : \A g \in days : g <= e

\* the step of run from the fetched list to the report
DiffStep == pc = "fetched" /\ (pc' = "notify" \/ result' = "True")

C9_BackupBeforeWrite ==
    /\ [](validated =>
            /\ \A f \in DayFiles(today) \cap DOMAIN start_files :
                 f \in DOMAIN backups /\ backups[f] = start_files[f].content
            /\ (pc = "fetch" => DayFiles(today) \cap DOMAIN files = {}))
    /\ [][\A f \in DayFiles(today) :
            (f \in DOMAIN files' /\ (f \notin DOMAIN files \/ files'[f] # files[f]))
            => /\ validated
               /\ f \notin DOMAIN files
               /\ (f \in DOMAIN start_files =>
                      f \in DOMAIN backups /\ backups[f] = start_files[f].content)]_vars

\* C9 witness: a run that found the three files of today and has written a
\* different snapshot and a different added list.
C9_Witness ==
    /\ pc = "done"
    /\ DayFiles(today) \subseteq DOMAIN start_files
    /\ DayFiles(today) \subseteq DOMAIN files
    /\ files[repo_list_file(today)].content
         # start_files[repo_list_file(today)].content
    /\ files[added_repos_file(today)].content
         # start_files[added_repos_file(today)].content

\* C10: when the token is set and its validation call fails, or the
\* validation call of the organization fails, run() ends in failure before
\* any page is requested, and no file has been backed up, removed or written.
C10_ValidationAborts ==
    rejected =>
        /\ pc = "done"
        /\ result \in {"False", "raised"}
        /\ requested = <<>>
        /\ files = start_files
        /\ backups = start_backups

\* C10 witness: a failed token validation in a directory that holds files of
\* today, which a backup would have moved.
C10_Witness ==
    /\ rejected
    /\ github_token # ""
    /\ result = "False"
    /\ DayFiles(today) \subseteq DOMAIN files

(***************************************************************************)
(* Claims about runs with notifications enabled (checked under SpecNotify).*)
(***************************************************************************)

\* C11: a failure of the webhook POST (non-2xx answer or network error)
\* never aborts or fails the run: it is logged as an error, and whatever the
\* outcome of the POST the run returns True, prints the same summary after
\* the same report, and leaves the snapshot, added-list and deleted-list
\* files as the diff wrote them.
C11_NotificationNeverFatal ==
    /\ [](notification # "none" =>
            /\ pc = "done"
            /\ result = "True"
            /\ console = ChangesReport(added_repos, deleted_repos)
                         \o Summary(previous_list_file, previous_repos,
                                    current_repos)
            /\ files[repo_list_file(today)].content = current_repos
            /\ files[added_repos_file(today)].content = added_repos
            /\ files[deleted_repos_file(today)].content = deleted_repos)
    /\ [][pc = "notify" =>
            /\ pc' = "done"
            /\ notification' \in {"sent", "failed"}
            /\ result' = "True"
            /\ files' = files
            /\ backups' = backups
            /\ console' = console \o Summary(previous_list_file, previous_repos,
                                             current_repos)]_vars

\* C11 witness: a run whose POST failed, with a repository added and one
\* deleted since the snapshot of the day before.
C11_Witness ==
    /\ pc = "done"
    /\ notification = "failed"
    /\ added_repos # <<>>
    /\ deleted_repos # <<>>

\* C18: run() returns False whenever the fetched list is empty, also when
\* every page request succeeded; then no diff, no report and no notification
\* is made, yet the snapshot file of today has been written, empty, and the
\* files of today the run found are in the backup directory; and a run that
\* picks such an empty snapshot as previous reports every repository as
\* added and none as deleted.
C18_EmptyFetchFails ==
    /\ (pc = "done" /\ validated /\ current_repos = <<>> =>
          /\ result = "False"
          /\ previous_list_file = None
          /\ console = <<>>
          /\ notification = "none"
          /\ {added_repos_file(today), deleted_repos_file(today)}
                 \cap DOMAIN files = {}
          /\ repo_list_file(today) \in DOMAIN files
          /\ files[repo_list_file(today)].content = <<>>
          /\ \A f \in DayFiles(today) \cap DOMAIN start_files :
               f \in DOMAIN backups /\ backups[f] = start_files[f].content)
    /\ (/\ pc \in {"notify", "done"}
        /\ previous_list_file # None
        /\ files[previous_list_file].content = <<>>
        => added_repos = current_repos /\ deleted_repos = <<>>)

\* C18 witness: a run of the second day whose previous snapshot is the empty
\* file a run of the first day left, with every repository notified as added.
C18_Witness ==
    /\ pc = "done"
    /\ today = 2
    /\ previous_list_file = repo_list_file(1)
    /\ files[repo_list_file(1)].content = <<>>
    /\ current_repos # <<>>
    /\ added_repos = current_repos
    /\ notification = "sent"

(***************************************************************************)
(* Claims about the snapshot file (checked under SpecFile).                *)
(***************************************************************************)
\* an identifier: not empty, no whitespace in it
IsIdentifier(text) ==
    text # <<>> /\ \A i \in 1..Len(text) : text[i] \notin Whitespace

\* a blank entry: nothing but whitespace
IsBlank(text) == \A i \in 1..Len(text) : text[i] \in Whitespace

\* C13: saving a list of identifiers with _save_list_to_file and loading the
\* file back the way run() loads the previous snapshot gives the same list
\* in the same order, apart from the blank entries, which are dropped.
C13_RoundTrip ==
    (/\ pc = "loaded"
     /\ \A i \in 1..Len(current_repos) :
          IsIdentifier(current_repos[i]) \/ IsBlank(current_repos[i]))
    => previous_repos = SelectSeq(current_repos, IsIdentifier)

\* C13 witness: a blank entry before an identifier of two characters.
C13_Witness ==
    /\ pc = "loaded"
    /\ current_repos = <<<<32>>, <<97, 97>>>>
    /\ previous_repos = <<<<97, 97>>>>

(***************************************************************************)
(* Claims about the command line (checked under SpecMain).                 *)
(***************************************************************************)
\* the step in which the process ends
ExitStep == pc = "done" /\ pc' = "idle"

\* C14: the exit code is 0 on the informational paths (show-config, dry
\* run) and after a completed run, and 1 on every failure: missing
\* organization, failed validation of the token or the organization, fetch
\* failure (a page request that failed 3 times, or nothing fetched),
\* uncaught exception, and user interrupt.
C14_ExitCodes ==
    [][ExitStep =>
          /\ exit_code' \in {0, 1}
          /\ (path \in {"show_config", "dry_run"} => exit_code' = 0)
          /\ (path = "no_organization" => exit_code' = 1)
          /\ (path = "run" =>
                (exit_code' = 1 <=>
                    \/ rejected
                    \/ aborted
                    \/ result \in {"False", "raised", "interrupted"}))]_vars

\* C15: a process started with -d/--dry-run requests no page of the listing
\* and leaves the snapshot, added-list, deleted-list and backup files and
\* the stored configuration as they were, also when options that set the
\* organization, the token or the webhook are given with it.
C15_DryRunChangesNothing ==
    [][(args.dry_run \/ args'.dry_run) =>
          /\ pc' \in {"done", "idle"}
          /\ requested' = <<>>
          /\ files' = files
          /\ backups' = backups
          /\ config' = config]_vars

\* the first step of a process whose command line updates the configuration
UpdateStep == pc = "idle" /\ pc' # "idle" /\ UpdatesConfig(args')

\* C17: after an invocation that updates the configuration, the stored
\* enable_slack is True if -s/--slack <url> or --enable-slack was given and
\* keeps its stored value if neither was given; each other setting changes
\* only if its own option was given.
C17_EnableSlackKept ==
    [][UpdateStep =>
          /\ enable_slack' =
                 (IF args'.slack_webhook_url # None \/ args'.enable_slack
                  THEN TRUE ELSE enable_slack)
          /\ (args'.organization = None => organization' = organization)
          /\ (args'.github_token = None => github_token' = github_token)
          /\ (args'.slack_webhook_url = None =>
                  slack_webhook_url' = slack_webhook_url)]_vars

(***************************************************************************)
(* Claims about print_table (checked under SpecTable).                     *)
(***************************************************************************)
\* the lines print_table prints after the title and the count
Body(out) == SubSeq(out, 3, Len(out))

\* C16: print_table renders a list by its length n: for n = 0 the "no
\* entries" line and no item; for 1 <= n <= 19 every entry on a line of its
\* own, an entry of more than 70 characters as its first 70 characters and an
\* ellipsis, a shorter one unchanged; for n >= 20 no entry, only the count
\* and the note that the results are in the file.
C16_PrintTable ==
    pc = "printed" =>
        LET n == Len(current_repos)
            body == Body(console)
        IN  /\ console[2] = <<"count", n>>
            /\ (n = 0 => body = <<<<"no_entries">>>>)
            /\ (n >= 1 /\ n <= 19 =>
                  /\ Len(body) = n
                  /\ \A i \in 1..n :
                       body[i] = <<"item",
                                   IF Len(current_repos[i]) > 70
                                   THEN SubSeq(current_repos[i], 1, 70)
                                        \o <<46, 46, 46>>
                                   ELSE current_repos[i]>>)
            /\ (n >= 20 =>
                  body = <<<<"too_many", n>>, <<"saved_to_file">>>>)

\* C16 witness: 19 entries, all printed, the seventh of 71 characters cut to
\* 70 and the ellipsis.
C16_Witness ==
    /\ pc = "printed"
    /\ Len(current_repos) = 19
    /\ Len(Body(console)) = 19
    /\ Len(current_repos[7]) = 71
    /\ Len(console[9][2]) = 73
    /\ Len(console[10][2]) < 70

====
